---- MODULE Spec2Model ----
(***************************************************************************)
(* Model of morning_dossier: the rule-based HTML cleaner                   *)
(* (content_processor.clean_html and process_endnotes), the AI polisher    *)
(* (clean_with_ai), the plain-text converter (text_to_html) and the        *)
(* concurrent article assembler (process_single_email, process_emails),    *)
(* together with main's handling of the --no-ai switch.                    *)
(*                                                                         *)
(* Text is modelled character by character with TLC's string operators     *)
(* (Len, SubSeq, \o).  An HTML string is a sequence of lexical tokens      *)
(* (open tag, text, close tag); a parsed document is a tree of node        *)
(* records.  Characters outside ASCII that the source names are written    *)
(* with the stand-ins Ellipsis, MidDot, Bullet, BulletOp and CurlyApos.    *)
(***************************************************************************)
EXTENDS Integers, Sequences, FiniteSets, TLC

VARIABLES
    \* ---- clean_html, one call after the other on its own output --------
    html,       \* the html_content argument of the first call (tokens)
    title,      \* remove_title
    author,     \* author_name
    pass,       \* 1: clean_html(html); 2: clean_html(result of pass 1)
    pc,         \* the pipeline step clean_html is about to run
    forest,     \* forest[1] is the soup; the rest are detached subtrees
    nextId,     \* identity given to the next node the code creates
    ids,        \* process_endnotes: id -> element (as node identities)
    anchors,    \* process_endnotes: the list of anchors being scanned
    scan,       \* process_endnotes: number of anchors already handled
    items,      \* process_endnotes: footnote_items
    done,       \* process_endnotes: processed_ids
    before,     \* the soup as it was when the current step started
    preNotes,   \* the soup as it was when process_endnotes was called
    raised,     \* process_endnotes raised in this call
    out1,       \* result of pass 1 (tokens)
    out2,       \* result of pass 2 (tokens)
    \* ---- main / process_emails -----------------------------------------
    mpc,        \* position of the main thread
    noAi,       \* the --no-ai switch
    envKey,     \* os.environ["OPENAI_API_KEY"] (NoKey when not set)
    emails,     \* emails_data
    submitted,  \* number of tasks handed to the executor
    started,    \* number of tasks a worker has picked up (FIFO queue)
    task,       \* per message: "idle", "running", "ok", "exc"
    result,     \* per message: the article a finished task returned
    calls,      \* per message: log of what its task invoked
    collected,  \* indices of the futures as_completed has yielded so far
    articles,   \* processed_articles
    \* ---- runs of main: cache, authentication, fetch ---------------------
    rpc,        \* position of the run of main ("idle" between runs)
    cacheOpt,   \* args.cache
    limit,      \* args.limit: <<>> when not given, <<n>> when given
    credFiles,  \* credentials.json or token.json exists
    cacheFile,  \* email_cache.json: whether it exists, and its text
    startCache, \* email_cache.json as the running run found it
    mailbox,    \* ids the mail service lists under the label, in order
    failing,    \* ids whose retrieval fails
    service,    \* main's service: TRUE when it holds a mail service
    listed,     \* outcome of the listing call of this run
    messages,   \* fetch_morning_dossier_emails: messages
    email_data, \* fetch_morning_dossier_emails: email_data
    mails,      \* main's emails
    auths,      \* calls of get_gmail_service in this run
    lists,      \* listing calls to the mail service in this run
    gets,       \* ids requested from the mail service in this run, in order
    passed,     \* <<>>, or <<the list process_emails was called with>>
    pdf,        \* "none", or the outcome of generate_pdf in this run
    runs        \* runs of main started so far

cleanVars == <<html, title, author, pass, pc, forest, nextId, ids, anchors,
               scan, items, done, before, preNotes, raised, out1, out2>>
asmVars == <<mpc, noAi, envKey, emails, submitted, started, task, result,
             calls, collected, articles>>
runVars == <<rpc, cacheOpt, limit, credFiles, cacheFile, startCache, mailbox,
             failing, service, listed, messages, email_data, mails, auths, lists,
             gets, passed, pdf, runs>>
vars == <<cleanVars, asmVars, runVars>>

-----------------------------------------------------------------------------
(* Characters and strings                                                  *)

Ellipsis == "~"       \* U+2026
MidDot == "%"         \* U+00B7
Bullet == "*"         \* U+2022
BulletOp == "+"       \* U+2219
CurlyApos == "_"      \* U+2019

Ch(s, i) == SubSeq(s, i, i)

Digits == {"0", "1", "2", "3", "4", "5", "6", "7", "8", "9"}

\* str.isspace for the characters the model uses
IsSpace(c) == c \in {" ", "\n", "\t", "\r"}

UpperAlpha == "ABCDEFGHIJKLMNOPQRSTUVWXYZ"
LowerAlpha == "abcdefghijklmnopqrstuvwxyz"

UpperSet == {Ch(UpperAlpha, i) : i \in 1..26}
LowerSet == {Ch(LowerAlpha, i) : i \in 1..26}

IsUpper(c) == c \in UpperSet
IsLower(c) == c \in LowerSet

LowerMap == [c \in UpperSet |-> Ch(LowerAlpha, CHOOSE i \in 1..26 : Ch(UpperAlpha, i) = c)]

LowerCh(c) == IF c \in UpperSet THEN LowerMap[c] ELSE c

RECURSIVE Lower(_)
\* str.lower
Lower(s) ==
    IF Len(s) = 0 THEN ""
    ELSE IF Len(s) = 1 THEN LowerCh(s)
    ELSE Lower(SubSeq(s, 1, Len(s) \div 2)) \o Lower(SubSeq(s, Len(s) \div 2 + 1, Len(s)))

RECURSIVE LStrip(_)
LStrip(s) ==
    IF Len(s) > 0 /\ IsSpace(Ch(s, 1)) THEN LStrip(SubSeq(s, 2, Len(s))) ELSE s

RECURSIVE RStrip(_)
RStrip(s) ==
    IF Len(s) > 0 /\ IsSpace(Ch(s, Len(s))) THEN RStrip(SubSeq(s, 1, Len(s) - 1)) ELSE s

\* str.strip
Strip(s) == RStrip(LStrip(s))

\* sub in s
Contains(sub, s) ==
    \E i \in 0..(Len(s) - Len(sub)) : SubSeq(s, i + 1, i + Len(sub)) = sub

\* s.startswith(p)
StartsWith(s, p) == Len(s) >= Len(p) /\ SubSeq(s, 1, Len(p)) = p

\* str.isdigit (ASCII digits)
IsDigitStr(s) == Len(s) > 0 /\ \A i \in 1..Len(s) : Ch(s, i) \in Digits

DigitVal(c) == CHOOSE d \in 0..9 : Ch("0123456789", d + 1) = c

RECURSIVE ToInt(_)
\* int(s) for a string of digits
ToInt(s) ==
    IF Len(s) = 0 THEN 0
    ELSE 10 * ToInt(SubSeq(s, 1, Len(s) - 1)) + DigitVal(Ch(s, Len(s)))

\* every character of s is in the set cs, and s is not empty: ^[cs]+$
AllIn(s, cs) == Len(s) > 0 /\ \A i \in 1..Len(s) : Ch(s, i) \in cs

\* number of leading characters of s that are in cs
RECURSIVE Span(_, _)
Span(s, cs) ==
    IF Len(s) > 0 /\ Ch(s, 1) \in cs THEN 1 + Span(SubSeq(s, 2, Len(s)), cs) ELSE 0

\* Python's $ also matches just before one trailing newline
DropFinalNewline(s) ==
    IF Len(s) > 0 /\ Ch(s, Len(s)) = "\n" THEN SubSeq(s, 1, Len(s) - 1) ELSE s

RECURSIVE ConcatRange(_, _, _)
\* ss[lo] \o ... \o ss[hi] for a sequence of strings
ConcatRange(ss, lo, hi) ==
    IF lo > hi THEN ""
    ELSE IF lo = hi THEN ss[lo]
    ELSE ConcatRange(ss, lo, (lo + hi) \div 2) \o ConcatRange(ss, (lo + hi) \div 2 + 1, hi)

\* "".join(ss)
ConcatAll(ss) == ConcatRange(ss, 1, Len(ss))

RECURSIVE FlattenRange(_, _, _)
\* ss[lo] \o ... \o ss[hi] for a sequence of sequences
FlattenRange(ss, lo, hi) ==
    IF lo > hi THEN <<>>
    ELSE IF lo = hi THEN ss[lo]
    ELSE FlattenRange(ss, lo, (lo + hi) \div 2) \o FlattenRange(ss, (lo + hi) \div 2 + 1, hi)

Flatten(ss) == FlattenRange(ss, 1, Len(ss))

\* sep.join(parts)
JoinWith(parts, sep) ==
    ConcatAll([i \in 1..Len(parts) |-> IF i = 1 THEN parts[i] ELSE sep \o parts[i]])

RECURSIVE IndexOfFrom(_, _, _)
\* position of the first occurrence of sub in s at or after i, 0 when none
IndexOfFrom(s, sub, i) ==
    IF i + Len(sub) - 1 > Len(s) THEN 0
    ELSE IF SubSeq(s, i, i + Len(sub) - 1) = sub THEN i
    ELSE IndexOfFrom(s, sub, i + 1)

RECURSIVE Split(_, _)
\* s.split(sep) for a non-empty separator
Split(s, sep) ==
    LET i == IndexOfFrom(s, sep, 1)
    IN IF i = 0 THEN <<s>>
       ELSE <<SubSeq(s, 1, i - 1)>> \o Split(SubSeq(s, i + Len(sep), Len(s)), sep)

RECURSIVE Replace(_, _, _)
\* s.replace(old, new) for a non-empty old
Replace(s, old, new) ==
    LET i == IndexOfFrom(s, old, 1)
    IN IF i = 0 THEN s
       ELSE SubSeq(s, 1, i - 1) \o new \o Replace(SubSeq(s, i + Len(old), Len(s)), old, new)

-----------------------------------------------------------------------------
(* HTML strings (tokens) and parsed documents (trees)                      *)

\* an attribute the tag does not carry
None == "<none>"

NoAttrs == [id |-> None, href |-> None, width |-> None, height |-> None, style |-> None]

\* lexical items of an HTML string
Open(name, a, cls) == [k |-> "open", name |-> name, a |-> a, cls |-> cls, text |-> ""]
Close(name) == [k |-> "close", name |-> name, a |-> NoAttrs, cls |-> <<>>, text |-> ""]
Text(s) == [k |-> "text", name |-> "", a |-> NoAttrs, cls |-> <<>>, text |-> s]

\* nodes of the parse tree: a Tag, or a NavigableString (name "#text")
Tag(nid, name, a, cls, kids) ==
    [nid |-> nid, name |-> name, a |-> a, cls |-> cls, text |-> "", kids |-> kids]
Str(nid, s) ==
    [nid |-> nid, name |-> "#text", a |-> NoAttrs, cls |-> <<>>, text |-> s, kids |-> <<>>]

IsTag(n) == n.name # "#text"

\* elements html.parser closes as soon as it has opened them
VoidNames == {"img", "br", "hr", "meta", "link", "input", "area", "col", "source", "track"}

\* BeautifulSoup.endData: a string of white space only is kept as one
\* newline or one space
EndData(s) ==
    IF Len(s) > 0 /\ Strip(s) = ""
    THEN (IF Contains("\n", s) THEN "\n" ELSE " ")
    ELSE s

\* the open element on top of the stack takes one more child; adjacent
\* character data is one string
AddKid(stack, kid) ==
    LET top == stack[Len(stack)]
        n == Len(top.kids)
        merged == IF n > 0 /\ ~IsTag(kid) /\ ~IsTag(top.kids[n])
                  THEN [top EXCEPT !.kids[n].text = top.kids[n].text \o kid.text]
                  ELSE [top EXCEPT !.kids = Append(top.kids, kid)]
    IN [stack EXCEPT ![Len(stack)] = merged]

\* white-space-only strings are normalised when the string is complete
NormKids(kids) ==
    [i \in 1..Len(kids) |->
        IF IsTag(kids[i]) THEN kids[i] ELSE [kids[i] EXCEPT !.text = EndData(kids[i].text)]]

\* the element on top of the stack is complete
PopOne(stack) ==
    LET top == stack[Len(stack)]
    IN AddKid(SubSeq(stack, 1, Len(stack) - 1), [top EXCEPT !.kids = NormKids(top.kids)])

RECURSIVE PopTo(_, _)
\* BeautifulSoup._popToTag: close the open elements down to the most
\* recent one called name
PopTo(stack, name) ==
    IF stack[Len(stack)].name = name THEN PopOne(stack) ELSE PopTo(PopOne(stack), name)

RECURSIVE PopAll(_)
PopAll(stack) == IF Len(stack) = 1 THEN stack ELSE PopAll(PopOne(stack))

\* the tree builder's reaction to one token: character data, a start tag
\* (a void element is complete at once), or an end tag, which closes down
\* to the most recent open element of that name and is ignored without one
Feed(stack, t, i) ==
    CASE t.k = "text" ->
           IF t.text = "" THEN stack ELSE AddKid(stack, Str(i, t.text))
      [] t.k = "open" /\ t.name \in VoidNames ->
           AddKid(stack, Tag(i, t.name, t.a, t.cls, <<>>))
      [] t.k = "open" /\ t.name \notin VoidNames ->
           Append(stack, Tag(i, t.name, t.a, t.cls, <<>>))
      [] OTHER ->
           IF \E j \in 2..Len(stack) : stack[j].name = t.name
           THEN PopTo(stack, t.name)
           ELSE stack

RECURSIVE ParseFrom(_, _, _, _)
\* the tokens lo..hi fed in order
ParseFrom(toks, lo, hi, stack) ==
    IF lo > hi THEN stack
    ELSE IF lo = hi THEN Feed(stack, toks[lo], lo)
    ELSE LET half == ParseFrom(toks, lo, (lo + hi) \div 2, stack)
         IN IF Len(half) = 0 THEN half
            ELSE ParseFrom(toks, (lo + hi) \div 2 + 1, hi, half)

\* BeautifulSoup(html_content, 'html.parser'): the soup, whose nodes carry
\* the position of their token as identity
Parse(toks) ==
    LET root == PopAll(ParseFrom(toks, 1, Len(toks),
                                 <<Tag(0, "[document]", NoAttrs, <<>>, <<>>)>>))[1]
    IN [root EXCEPT !.kids = NormKids(root.kids)]

\* two pieces of output one after the other; character data next to
\* character data is indistinguishable from one string
Glue(x, y) ==
    IF x # <<>> /\ y # <<>> /\ x[Len(x)].k = "text" /\ y[1].k = "text"
    THEN SubSeq(x, 1, Len(x) - 1) \o <<Text(x[Len(x)].text \o y[1].text)>> \o Tail(y)
    ELSE x \o y

RECURSIVE GlueRange(_, _, _)
GlueRange(ts, lo, hi) ==
    IF lo > hi THEN <<>>
    ELSE IF lo = hi THEN (IF ts[lo].k = "text" /\ ts[lo].text = "" THEN <<>> ELSE <<ts[lo]>>)
    ELSE Glue(GlueRange(ts, lo, (lo + hi) \div 2), GlueRange(ts, (lo + hi) \div 2 + 1, hi))

RECURSIVE Decode(_)
\* str(tag): the tag, its contents, its end tag
Decode(n) ==
    IF ~IsTag(n) THEN <<Text(n.text)>>
    ELSE IF n.name \in VoidNames THEN <<Open(n.name, n.a, n.cls)>>
    ELSE <<Open(n.name, n.a, n.cls)>>
         \o Flatten([i \in 1..Len(n.kids) |-> Decode(n.kids[i])])
         \o <<Close(n.name)>>
DecodeKids(kids) == Flatten([i \in 1..Len(kids) |-> Decode(kids[i])])

\* str(soup): the contents of the document object
DecodeSoup(soup) == DecodeKids(soup.kids)

\* an HTML string is its tokens with adjacent character data run together
Html(ts) == GlueRange(ts, 1, Len(ts))

-----------------------------------------------------------------------------
(* Navigating and changing the tree                                        *)

RECURSIVE Pre(_)
\* the node and its descendants in document order
Pre(n) == <<n>> \o Flatten([i \in 1..Len(n.kids) |-> Pre(n.kids[i])])
PreKids(kids) == Flatten([i \in 1..Len(kids) |-> Pre(kids[i])])

\* Tag.descendants
Descendants(n) == PreKids(n.kids)

\* Tag.find_all(True)
AllTags(n) == SelectSeq(Descendants(n), IsTag)

\* Tag.find_all(names)
FindAll(n, names) == SelectSeq(Descendants(n), LAMBDA d : d.name \in names)

\* Tag.find(names): truthy when some descendant has one of the names
Finds(n, names) ==
    LET ds == Descendants(n) IN \E i \in 1..Len(ds) : ds[i].name \in names

\* Tag.find(True)
HasChildTag(n) == LET ds == Descendants(n) IN \E i \in 1..Len(ds) : IsTag(ds[i])

Strings(n) == SelectSeq(Pre(n), LAMBDA d : ~IsTag(d))

\* Tag.get_text()
GetText(n) == LET ss == Strings(n) IN ConcatAll([i \in 1..Len(ss) |-> ss[i].text])

StrippedStrings(n) ==
    LET ss == Strings(n)
    IN SelectSeq([i \in 1..Len(ss) |-> Strip(ss[i].text)], LAMBDA s : s # "")

\* Tag.get_text(sep, strip=True)
GetTextSep(n, sep) == JoinWith(StrippedStrings(n), sep)

RECURSIVE SubstKids(_, _, _)
\* the children with the node called nid replaced by the nodes repl
SubstKids(kids, nid, repl) ==
    Flatten([i \in 1..Len(kids) |->
               IF kids[i].nid = nid THEN repl
               ELSE <<[kids[i] EXCEPT !.kids = SubstKids(kids[i].kids, nid, repl)]>>])

\* the same over a forest, whose roots may be replaced too
Subst(f, nid, repl) == SubstKids(f, nid, repl)

ForestNodes(f) == PreKids(f)

InForest(f, nid) == LET ns == ForestNodes(f) IN \E i \in 1..Len(ns) : ns[i].nid = nid

NodeOf(f, nid) ==
    LET ns == ForestNodes(f)
    IN ns[CHOOSE i \in 1..Len(ns) : ns[i].nid = nid]

IsRoot(f, nid) == \E i \in 1..Len(f) : f[i].nid = nid

\* PageElement.extract: the element leaves its parent and lives on detached
Extract(f, nid) ==
    IF IsRoot(f, nid) THEN f ELSE Append(Subst(f, nid, <<>>), NodeOf(f, nid))

\* Tag.decompose: the element and everything in it is destroyed
Decompose(f, nid) == Subst(f, nid, <<>>)

\* parent.append(child): child leaves where it was and becomes the last
\* child of parent
AppendTo(f, pid, cid) ==
    LET c == NodeOf(f, cid)
        f1 == Subst(f, cid, <<>>)
        p == NodeOf(f1, pid)
    IN Subst(f1, pid, <<[p EXCEPT !.kids = Append(p.kids, c)]>>)

\* parent.append(a node the code has just made)
AppendNew(f, pid, n) ==
    LET p == NodeOf(f, pid)
    IN Subst(f, pid, <<[p EXCEPT !.kids = Append(p.kids, n)]>>)

-----------------------------------------------------------------------------
(* process_endnotes                                                        *)

DropPrefix(s, p) == IF StartsWith(s, p) THEN SubSeq(s, Len(p) + 1, Len(s)) ELSE s

\* re.match(r'^\[?\(?\d+\)?\]?$', text)
IsNumberRef(text) ==
    LET s2 == DropPrefix(DropPrefix(text, "["), "(")
        n == Span(s2, Digits)
        s3 == SubSeq(s2, n + 1, Len(s2))
    IN n >= 1 /\ DropFinalNewline(DropPrefix(DropPrefix(s3, ")"), "]")) = ""

\* 'footnote' in id.lower() or 'fn' in id.lower() or 'ref' in id.lower()
IsFootnoteId(target_id) ==
    \/ Contains("footnote", Lower(target_id))
    \/ Contains("fn", Lower(target_id))
    \/ Contains("ref", Lower(target_id))

\* the tags of the soup that carry an id attribute, in document order
TagsWithId(soup) == SelectSeq(AllTags(soup), LAMBDA n : n.a.id # None)

\* ids = {tag['id']: tag for tag in soup.find_all(id=True)}: a later tag
\* with the same id replaces an earlier one
IdMap(soup) ==
    LET ts == TagsWithId(soup)
    IN [s \in {ts[i].a.id : i \in 1..Len(ts)} |->
          ts[CHOOSE i \in 1..Len(ts) :
               /\ ts[i].a.id = s
               /\ \A j \in (i + 1)..Len(ts) : ts[j].a.id # s].nid]

\* anchors = list(soup.find_all('a', href=True))
AnchorList(soup) ==
    LET as == SelectSeq(AllTags(soup), LAMBDA n : n.name = "a" /\ n.a.href # None)
    IN [i \in 1..Len(as) |-> as[i].nid]

\* the state of one run of process_endnotes
ScanState(f, next) ==
    [forest |-> f, nextId |-> next, items |-> <<>>, done |-> {}, exc |-> FALSE]

RECURSIVE DetachTags(_, _)
\* Tag.clear(): every child is extracted; the tags among them live on
DetachTags(f, kids) ==
    IF kids = <<>> THEN f
    ELSE DetachTags(IF IsTag(Head(kids)) THEN Append(f, Head(kids)) ELSE f, Tail(kids))

\* lines 81-87: the anchor's text goes into a new <sup>, its only content
\* besides the empty string that anchor.string = "" leaves
WrapSup(S, aid) ==
    LET anchor == NodeOf(S.forest, aid)
        anchor_text == GetText(anchor)
        sup == Tag(S.nextId + 1, "sup", NoAttrs, <<>>, <<Str(S.nextId + 2, anchor_text)>>)
        wrapped == [anchor EXCEPT !.kids = <<Str(S.nextId, ""), sup>>]
    IN [S EXCEPT !.forest = DetachTags(Subst(S.forest, aid, <<wrapped>>), anchor.kids),
                 !.nextId = S.nextId + 3]

\* lines 81-87 with their guard: not anchor.find('sup')
MaybeWrapSup(S, aid) ==
    IF Finds(NodeOf(S.forest, aid), {"sup"}) THEN S ELSE WrapSup(S, aid)

\* lines 99-101: the link is a back-link
IsBackLink(link) ==
    /\ link.a.href # None
    /\ StartsWith(link.a.href, "#")
    /\ \/ Len(Strip(GetText(link))) < 3
       \/ Contains("return", Lower(GetText(link)))

RECURSIVE DropBackLinks(_, _)
\* lines 98-102 over the links found in the note before the loop started; a
\* link destroyed together with an enclosing link has no attrs left, and
\* link.get raises on it
DropBackLinks(S, links) ==
    IF links = <<>> \/ S.exc THEN S
    ELSE IF ~InForest(S.forest, Head(links)) THEN [S EXCEPT !.exc = TRUE]
    ELSE DropBackLinks(
             IF IsBackLink(NodeOf(S.forest, Head(links)))
             THEN [S EXCEPT !.forest = Decompose(S.forest, Head(links))]
             ELSE S,
             Tail(links))

BlockNames == {"div", "p", "li"}

\* lines 104-111: a note that is no block element goes into a new <div>;
\* the note gets the marker class and joins footnote_items
CollectNote(S, tid) ==
    IF S.exc THEN S
    ELSE IF InForest(S.forest, tid) /\ NodeOf(S.forest, tid).name \in BlockNames
    THEN LET note == NodeOf(S.forest, tid)
         IN [S EXCEPT
               !.forest = Subst(S.forest, tid,
                                <<[note EXCEPT !.cls = note.cls \o <<"endnote-item">>]>>),
               !.items = Append(S.items, tid)]
    ELSE LET husk == Tag(tid, "<decomposed>", NoAttrs, <<>>, <<>>)
             note == IF InForest(S.forest, tid) THEN NodeOf(S.forest, tid) ELSE husk
             wrapper == Tag(S.nextId, "div", NoAttrs, <<"endnote-item">>, <<note>>)
         IN [S EXCEPT
               !.forest = Append(Subst(S.forest, tid, <<>>), wrapper),
               !.nextId = S.nextId + 1,
               !.items = Append(S.items, S.nextId)]

\* lines 90-111: the target of a reference seen for the first time
ExtractNote(S, target_id, tid) ==
    IF target_id \in S.done THEN S
    ELSE LET S1 == [S EXCEPT !.done = S.done \cup {target_id},
                             !.forest = IF InForest(S.forest, tid)
                                        THEN Extract(S.forest, tid) ELSE S.forest]
             links == IF InForest(S1.forest, tid)
                      THEN FindAll(NodeOf(S1.forest, tid), {"a"}) ELSE <<>>
         IN CollectNote(DropBackLinks(S1, [i \in 1..Len(links) |-> links[i].nid]), tid)

\* lines 64-79: the anchor is a footnote reference whose target exists
Qualifies(anchor, idmap) ==
    LET href == anchor.a.href
        target_id == SubSeq(href, 2, Len(href))
    IN /\ StartsWith(href, "#")
       /\ target_id \in DOMAIN idmap
       /\ \/ IsNumberRef(Strip(GetText(anchor)))
          \/ IsFootnoteId(target_id)

\* lines 61-111: one iteration of the scan; an anchor destroyed by an
\* earlier iteration is skipped
ScanStep(S, idmap, aid) ==
    IF S.exc \/ ~InForest(S.forest, aid) THEN S
    ELSE LET anchor == NodeOf(S.forest, aid)
             target_id == SubSeq(anchor.a.href, 2, Len(anchor.a.href))
         IN IF ~Qualifies(anchor, idmap) THEN S
            ELSE ExtractNote(MaybeWrapSup(S, aid), target_id, idmap[target_id])

RECURSIVE AppendItems(_, _, _)
AppendItems(f, cid, its) ==
    IF its = <<>> THEN f ELSE AppendItems(AppendTo(f, cid, Head(its)), cid, Tail(its))

\* soup.body: the first <body> of the soup, 0 (the soup itself) when none
BodyOf(soup) ==
    LET bs == FindAll(soup, {"body"}) IN IF bs = <<>> THEN 0 ELSE bs[1].nid

\* lines 114-131: the Notes container, appended when anything was collected
AppendNotes(S) ==
    IF S.items = <<>> THEN S
    ELSE LET header == Tag(S.nextId + 1, "h3", NoAttrs, <<>>, <<Str(S.nextId + 2, "Notes")>>)
             container == Tag(S.nextId, "div", NoAttrs, <<"endnotes">>, <<header>>)
             f1 == AppendItems(Append(S.forest, container), S.nextId, S.items)
             soup == f1[1]
             pid == IF BodyOf(soup) = 0 THEN soup.nid ELSE BodyOf(soup)
         IN [S EXCEPT !.forest = AppendTo(f1, pid, S.nextId), !.nextId = S.nextId + 3]

RECURSIVE ScanFrom(_, _, _, _)
ScanFrom(S, idmap, as, k) ==
    IF k > Len(as) THEN S ELSE ScanFrom(ScanStep(S, idmap, as[k]), idmap, as, k + 1)

\* lines 113-131 after the scan S, skipped when the scan raised
EndnotesEnd(S, T) == [soup |-> T.forest[1], nextId |-> T.nextId, exc |-> S.exc]
EndnotesResult(S) == EndnotesEnd(S, IF S.exc THEN S ELSE AppendNotes(S))

\* process_endnotes(soup) under the try of clean_html (lines 148-151):
\* the soup as the call leaves it, whether it returned or raised
ProcessEndnotes(soup, next) ==
    EndnotesResult(ScanFrom(ScanState(<<soup>>, next), IdMap(soup), AnchorList(soup), 1))

-----------------------------------------------------------------------------
(* clean_html: the steps of the pipeline                                   *)

RECURSIVE PruneKids(_, _)
\* element.decompose() for every element whose identity is in dead, as the
\* loops over a list found beforehand do it: an element goes with
\* everything in it
PruneKids(kids, dead) ==
    Flatten([i \in 1..Len(kids) |->
               IF kids[i].nid \in dead THEN <<>>
               ELSE <<[kids[i] EXCEPT !.kids = PruneKids(kids[i].kids, dead)]>>])

Prune(soup, dead) == [soup EXCEPT !.kids = PruneKids(soup.kids, dead)]

\* the identities of the nodes of a list
NidSet(nodes) == {nodes[i].nid : i \in 1..Len(nodes)}

NonContentNames == {"script", "style", "meta", "link", "noscript"}

\* lines 144-145
StripNonContent(soup) ==
    Prune(soup, NidSet(FindAll(soup, NonContentNames)))

TitleMinLen == 10

\* lines 165-172: the header's text against the normalised title
TitleMatches(header, target_title) ==
    LET header_text == Lower(Strip(GetText(header)))
    IN /\ header_text # ""
       /\ \/ header_text = target_title
          \/ Len(target_title) > TitleMinLen /\ Contains(target_title, header_text)
          \/ Len(header_text) > TitleMinLen /\ Contains(header_text, target_title)

HeadingNames == {"h1", "h2"}
HeadingLimit == 2

\* the headings a title may remove, when the limit is not applied
AnyHeadings(soup) == FindAll(soup, HeadingNames)

\* soup.find_all(['h1', 'h2'], limit=2)
FirstHeadings(soup) ==
    LET hs == FindAll(soup, HeadingNames)
    IN SubSeq(hs, 1, IF Len(hs) < HeadingLimit THEN Len(hs) ELSE HeadingLimit)

\* lines 154-174: the first of the headings looked at that matches goes,
\* and the loop ends
TitleDedup(soup, remove_title) ==
    IF remove_title = "" \/ remove_title = None THEN soup
    ELSE LET target_title == Lower(Strip(remove_title))
             hs == FirstHeadings(soup)
             hit == {i \in 1..Len(hs) : TitleMatches(hs[i], target_title)}
         IN IF hit = {} THEN soup
            ELSE Prune(soup, {hs[CHOOSE i \in hit : \A j \in hit : i <= j].nid})

ForwardedMaxLen == 300
DateMaxLen == 25
AuthorSlack == 50

\* re.match(r'^[\.\s...]+$', text) or text.strip() == "."
IsPunctuation(text) ==
    \/ AllIn(text, {".", " ", "\n", "\t", "\r", Ellipsis})
    \/ Strip(text) = "."

\* re.match(r'^[A-Z][a-z]{2,8}\s+\d{1,2}(?:,\s+\d{4})?$', s)
IsShortDate(s) ==
    /\ Len(s) > 0 /\ IsUpper(Ch(s, 1))
    /\ LET s1 == SubSeq(s, 2, Len(s))
           n == Span(s1, LowerSet)
           s2 == SubSeq(s1, n + 1, Len(s1))
           w == Span(s2, {" ", "\n", "\t", "\r"})
           s3 == SubSeq(s2, w + 1, Len(s2))
           d == Span(s3, Digits)
           s4 == SubSeq(s3, d + 1, Len(s3))
           w2 == Span(SubSeq(s4, 2, Len(s4)), {" ", "\n", "\t", "\r"})
           s5 == SubSeq(s4, w2 + 2, Len(s4))
       IN /\ n >= 2 /\ n <= 8 /\ w >= 1 /\ d >= 1 /\ d <= 2
          /\ \/ DropFinalNewline(s4) = ""
             \/ /\ StartsWith(s4, ",") /\ w2 >= 1
                /\ Span(s5, Digits) = 4 /\ Len(DropFinalNewline(s5)) = 4

\* re.match(r'^[\..*]?\s*Paid$', s, re.IGNORECASE) with the middle dot and
\* the bullet in the class
IsPaidMarker(s) ==
    LET s1 == IF Len(s) > 0 /\ Ch(s, 1) \in {".", MidDot, Bullet}
              THEN SubSeq(s, 2, Len(s)) ELSE s
    IN Lower(DropFinalNewline(LStrip(s1))) = "paid"

\* lines 218-229: a short element that is or holds a link and names the
\* sender
IsAuthorLink(element, text_lower, author_name) ==
    /\ author_name # "" /\ author_name # None
    /\ LET clean_author == Strip(Replace(Lower(author_name), "by ", ""))
           clean_text == Strip(Replace(text_lower, "by ", ""))
       IN /\ Len(clean_text) < Len(clean_author) + AuthorSlack
          /\ clean_author # "" /\ clean_text # ""
          /\ (clean_author = clean_text \/ Contains(clean_author, clean_text))
          /\ (Finds(element, {"a"}) \/ element.name = "a")

\* lines 179-229: the element is boilerplate by one of the six rules
IsBoilerplate(element, author_name) ==
    LET text == GetTextSep(element, " ")
        text_lower == Lower(text)
    IN \/ /\ Len(text) < ForwardedMaxLen
          /\ Contains("forwarded this email", text_lower)
          /\ Contains("subscribe", text_lower)
       \/ IsPunctuation(text)
       \/ Len(text) < DateMaxLen /\ IsShortDate(Strip(text))
       \/ text = "" /\ ~Finds(element, {"img", "iframe"})
       \/ IsPaidMarker(Strip(text))
       \/ IsAuthorLink(element, text_lower, author_name)

BoilerplateNames == {"p", "div", "span", "h3", "h4", "blockquote"}

\* lines 178-229
RemoveBoilerplate(soup, author_name) ==
    Prune(soup, NidSet(SelectSeq(FindAll(soup, BoilerplateNames),
        LAMBDA n : IsBoilerplate(n, author_name))))

PlatformClasses ==
    {"subscription-widget-wrap", "post-footer", "footer", "comments-section",
     "share-dialog", "subscribe-footer", "simple-text-box", "preview",
     "email-ufi-2-bottom", "email-ufi-2-top", "post-meta", "email-button-outline",
     "email-button-text", "email-icon-button"}

\* lines 233-249: soup.find_all(class_=[...])
RemovePlatformClasses(soup) ==
    Prune(soup, NidSet(SelectSeq(AllTags(soup),
        LAMBDA n : \E i \in 1..Len(n.cls) : n.cls[i] \in PlatformClasses)))

ad_markers == {"ads powered by", "adchoices", "sponsored by", "advertisement"}

footer_markers ==
    {"share", "comment", "subscribe", "unsubscribe", "update your preferences",
     "view in browser", "manage your email settings", "privacy policy",
     "terms of service", "california notices", "connect with us on",
     "all rights reserved", "received this email because", "stop receiving",
     "thanks for reading", "we" \o CurlyApos \o "ll see you",
     "we'd like your feedback", "need help? review our",
     "the new york times company", "get the new york times app"}

AdMaxLen == 200
FooterMaxLen == 500
SignatureMaxLen == 200
ReadInAppMaxLen == 50

\* any(marker in text for marker in footer_markers)
HasFooterMarker(text) == \E m \in footer_markers : Contains(m, text)

\* the text is one of the action words and nothing else
IsFooterMarker(text) == text \in footer_markers

\* lines 274-302: the element is an ad, footer boilerplate, a signature
\* line or a "read in app" link
IsAdOrFooter(element) ==
    LET text == Lower(GetTextSep(element, " "))
    IN \/ /\ \E m \in ad_markers : Contains(m, text)
          /\ (Len(text) < AdMaxLen \/ Contains("ads powered by liveintent", text))
       \/ /\ Len(text) < FooterMaxLen
          /\ \/ HasFooterMarker(text)
             \/ /\ Contains("@", text)
                /\ (Contains("editor", text) \/ Contains("reporter", text))
                /\ Len(text) < SignatureMaxLen
       \/ Contains("read in app", text) /\ Len(text) < ReadInAppMaxLen

FooterNames == {"p", "div", "span", "a", "h3", "h4", "table", "td", "tr"}

\* lines 273-302
RemoveAdsAndFooters(soup) ==
    Prune(soup, NidSet(SelectSeq(FindAll(soup, FooterNames), IsAdOrFooter)))

TinyMax == 50

\* lines 314 and 316: the attribute is set, all digits, and at most 50
IsSmallDimension(v) == v # None /\ v # "" /\ IsDigitStr(v) /\ ToInt(v) <= TinyMax

\* the test on the width alone
IsSmallWidthOnly(img) == IsSmallDimension(img.a.width)

\* lines 310-317
IsTinyImage(img) == IsSmallDimension(img.a.width) \/ IsSmallDimension(img.a.height)

\* lines 305-317
RemoveTinyImages(soup) == Prune(soup, NidSet(SelectSeq(FindAll(soup, {"img"}), IsTinyImage)))

LeafSkipNames ==
    {"img", "br", "hr", "iframe", "source", "track", "area", "col", "input", "meta", "link"}

\* lines 323-332
IsPunctuationLeaf(element) ==
    LET text == GetTextSep(element, "")
    IN /\ element.name \notin LeafSkipNames
       /\ ~HasChildTag(element)
       /\ text # ""
       /\ \/ AllIn(text, {".", " ", "\n", "\t", "\r", Ellipsis, Bullet, MidDot, BulletOp})
          \/ text = "."

\* lines 321-332
RemovePunctuationLeaves(soup) == Prune(soup, NidSet(SelectSeq(AllTags(soup), IsPunctuationLeaf)))

EmptyNames == {"div", "p", "span", "h3", "h4", "blockquote", "table", "tr", "td"}

\* lines 335-339
RemoveEmpty(soup) ==
    Prune(soup, NidSet(SelectSeq(FindAll(soup, EmptyNames),
        LAMBDA n : /\ GetTextSep(n, "") = ""
                   /\ ~Finds(n, {"img", "iframe", "hr", "br", "input"}))))

RECURSIVE StripStyleKids(_)
StripStyleKids(kids) ==
    [i \in 1..Len(kids) |->
        IF IsTag(kids[i])
        THEN [kids[i] EXCEPT !.a.style = None, !.kids = StripStyleKids(kids[i].kids)]
        ELSE kids[i]]

\* lines 342-344
StripStyles(soup) == [soup EXCEPT !.kids = StripStyleKids(soup.kids)]

\* lines 347-354: the body renamed to a div, or the whole soup in a div
Render(soup) ==
    IF BodyOf(soup) # 0
    THEN Html(Decode([NodeOf(<<soup>>, BodyOf(soup)) EXCEPT !.name = "div"]))
    ELSE Html(<<Open("div", NoAttrs, <<>>)>> \o DecodeSoup(soup) \o <<Close("div")>>)

\* clean_html(html_content, remove_title, author_name)
clean_html(html_content, remove_title, author_name) ==
    Render(StripStyles(RemoveEmpty(RemovePunctuationLeaves(RemoveTinyImages(
        RemoveAdsAndFooters(RemovePlatformClasses(RemoveBoilerplate(
            TitleDedup(
                ProcessEndnotes(StripNonContent(Parse(html_content)),
                                Len(html_content) + 1).soup,
                remove_title),
            author_name))))))))

-----------------------------------------------------------------------------
(* The documents and hints clean_html is run on                            *)

MaxNotes == 2       \* footnotes in a generated document
MaxRefs == 2        \* references to each footnote
MaxHeadings == 3    \* headings in a generated document

A(href) == [NoAttrs EXCEPT !.href = href]
I(id) == [NoAttrs EXCEPT !.id = id]
W(width, height) == [NoAttrs EXCEPT !.width = width, !.height = height]
El(name, a, inner) == <<Open(name, a, <<>>)>> \o inner \o <<Close(name)>>
P(s) == El("p", NoAttrs, <<Text(s)>>)

NumStr(j) == Ch("0123456789", j + 1)

Variants == {"num", "fnid", "sup", "long"}

\* the j-th reference in the running text
Ref(j, v) ==
    CASE v = "num"  -> El("a", A("#n" \o NumStr(j)), <<Text("[" \o NumStr(j) \o "]")>>)
      [] v = "fnid" -> El("a", A("#fn" \o NumStr(j)), <<Text("see")>>)
      [] v = "sup"  -> El("a", A("#fn" \o NumStr(j)),
                          <<Text("[")>> \o El("sup", NoAttrs, <<Text(NumStr(j))>>)
                          \o <<Text("]")>>)
      [] OTHER      -> El("a", [A("#fn" \o NumStr(j)) EXCEPT !.id = "ref" \o NumStr(j)],
                          <<Text(NumStr(j))>>)

\* the j-th footnote
Note(j, v) ==
    CASE v = "num"  -> El("div", I("n" \o NumStr(j)), <<Text("Source of claim " \o NumStr(j) \o ".")>>)
      [] v = "fnid" -> El("p", I("fn" \o NumStr(j)),
                          <<Text("Source of claim " \o NumStr(j) \o ". ")>>
                          \o El("a", A("#top"), <<Text("^")>>))
      [] v = "sup"  -> El("span", I("fn" \o NumStr(j)), <<Text("Source of claim " \o NumStr(j) \o ".")>>)
      [] OTHER      -> El("li", I("fn" \o NumStr(j)),
                          <<Text("Source of claim " \o NumStr(j) \o ". ")>>
                          \o El("a", A("#ref" \o NumStr(j)), <<Text("back to text")>>))

\* a text with r rounds of references to n footnotes, the footnotes after
\* it in reverse order, with or without <body>
FootDoc(n, r, v, b) ==
    LET refs == Flatten([k \in 1..(n * r) |-> Ref(((k - 1) % n) + 1, v)])
        notes == Flatten([k \in 1..n |-> Note(n + 1 - k, v)])
        inner == El("p", NoAttrs, <<Text("As noted ")>> \o refs) \o notes
    IN IF b THEN El("body", NoAttrs, inner) ELSE inner

FootDocs ==
    {FootDoc(n, r, v, b) : n \in 0..MaxNotes, r \in 1..MaxRefs, v \in Variants, b \in BOOLEAN}

HeadText(i) == "Weekly Digest " \o NumStr(i)

\* h headings, <h1> and <h2> in turn, each followed by a paragraph
HeadDoc(h) ==
    Flatten([i \in 1..h |->
               El(IF i % 2 = 1 THEN "h1" ELSE "h2", NoAttrs, <<Text(" " \o HeadText(i) \o " ")>>)
               \o P("Text of section " \o NumStr(i) \o ".")])

HeadDocs == {HeadDoc(h) : h \in 0..MaxHeadings}

HeadTitles ==
    {"", "Weekly Digest 1", " weekly digest 2 ", "Weekly Digest 3",
     "Fwd: Weekly Digest 2 today", "Weekly Digest", "Digest", "Unrelated"}

\* the values a width or height attribute takes
Dims == <<None, "", "0", "40", "50", "51", "400", "40px", "-5">>

\* those of them that are a non-negative integer of at most 50
DimSmall == {"0", "40", "50"}

\* one image of width w for every height
ImgDoc(w) == P("Pictures") \o [i \in 1..Len(Dims) |-> Open("img", W(w, Dims[i]), <<>>)]

ImgDocs == {ImgDoc(Dims[i]) : i \in 1..Len(Dims)}

\* a footnote whose back-link holds a second back-link
NestedBackLinkDoc ==
    El("p", NoAttrs, <<Text("Some text ")>> \o El("a", A("#fn1"), <<Text("1")>>))
    \o El("p", I("fn1"),
          <<Text("Note ")>>
          \o El("a", A("#top"), El("a", A("#top"), <<Text("^")>>)))

\* a footnote that uses one of the footer words
CommentNoteDoc ==
    El("p", NoAttrs, <<Text("Some text ")>> \o El("a", A("#fn1"), <<Text("1")>>))
    \o El("p", I("fn1"), <<Text("See the comment by Smith.")>>)

\* a footnote that refers to another footnote
CrossRefDoc ==
    El("p", NoAttrs, <<Text("Some text ")>> \o El("a", A("#fn1"), <<Text("1")>>))
    \o El("p", I("fn1"), <<Text("As in note ")>> \o El("a", A("#fn2"), <<Text("2")>>))
    \o El("p", I("fn2"), <<Text("Second note")>>)

\* a heading that uses a footer word, and a list
ListDoc ==
    El("h1", NoAttrs, <<Text("Share prices fall")>>)
    \o El("ul", NoAttrs, El("li", NoAttrs, <<Text("point")>>))

\* a newsletter with the usual furniture
LetterDoc ==
    <<Open("html", NoAttrs, <<>>), Open("head", NoAttrs, <<>>)>>
    \o El("style", NoAttrs, <<Text("p {}")>>)
    \o <<Close("head"), Open("body", NoAttrs, <<>>)>>
    \o El("h1", NoAttrs, <<Text("Weekly Digest 1")>>)
    \o El("div", NoAttrs, El("a", A("http://x"), <<Text("By Jane Doe")>>))
    \o P("Dec 19, 2024") \o P("...") \o P(MidDot \o " Paid")
    \o El("div", [NoAttrs EXCEPT !.style = "color:red"], P("The article."))
    \o El("div", NoAttrs, El("span", NoAttrs, <<Text(Bullet)>>))
    \o El("p", NoAttrs, <<Text("\n ")>>)
    \o El("div", NoAttrs, <<>>) \o <<Open("div", NoAttrs, <<"post-footer">>), Text("Footer links"), Close("div")>>
    \o P("Unsubscribe") \o P("Sponsored by Acme") \o P("Read in app")
    \o P("jo@nyt.com, editor")
    \o <<Close("body"), Close("html")>>

\* a paragraph of prose that uses a footer word, and a button label
ProseDoc == P("Many readers share this view.") \o P("Share") \o P("The end of the story.")

OtherDocs == {NestedBackLinkDoc, CommentNoteDoc, CrossRefDoc, ListDoc, LetterDoc, ProseDoc}

Authors == {"", "Jane Doe"}

\* the calls of clean_html that are explored: <<html, title, author>>
CleanCases ==
    (FootDocs \X {"Weekly Digest 1"} \X {""})
    \cup (HeadDocs \X HeadTitles \X {""})
    \cup (ImgDocs \X {""} \X {""})
    \cup (OtherDocs \X {"", "Weekly Digest 1"} \X Authors)

-----------------------------------------------------------------------------
(* clean_html step by step, called on a document and then on its result    *)

NoKey == "<unset>"

NoSoup == Tag(0, "[document]", NoAttrs, <<>>, <<>>)

\* the assembler at rest
\* email_cache.json when it does not exist
NoFile == [exists |-> FALSE, text |-> <<>>]

\* no run of main
RunIdle ==
    /\ rpc = "off" /\ cacheOpt = FALSE /\ limit = <<>> /\ credFiles = FALSE
    /\ cacheFile = NoFile /\ startCache = NoFile
    /\ mailbox = <<>> /\ failing = {} /\ service = FALSE /\ listed = "none"
    /\ messages = <<>> /\ email_data = <<>> /\ mails = <<>>
    /\ auths = 0 /\ lists = 0 /\ gets = <<>> /\ passed = <<>> /\ pdf = "none"
    /\ runs = 0

AsmIdle ==
    /\ mpc = "idle" /\ noAi = FALSE /\ envKey = NoKey /\ emails = <<>>
    /\ submitted = 0 /\ started = 0 /\ task = <<>> /\ result = <<>>
    /\ calls = <<>> /\ collected = <<>> /\ articles = <<>>

InitClean ==
    /\ \E c \in CleanCases : html = c[1] /\ title = c[2] /\ author = c[3]
    /\ pass = 1 /\ pc = "parse"
    /\ forest = <<NoSoup>> /\ nextId = 0
    /\ ids = <<>> /\ anchors = <<>> /\ scan = 0 /\ items = <<>> /\ done = {}
    /\ before = NoSoup /\ preNotes = NoSoup /\ raised = FALSE
    /\ out1 = <<>> /\ out2 = <<>>
    /\ AsmIdle
    /\ RunIdle

\* the html_content argument of the running call
Input == IF pass = 1 THEN html ELSE out1

\* line 141
CleanParse ==
    /\ pc = "parse"
    /\ forest' = <<Parse(Input)>>
    /\ nextId' = Len(Input) + 1
    /\ before' = NoSoup /\ preNotes' = NoSoup /\ raised' = FALSE
    /\ ids' = <<>> /\ anchors' = <<>> /\ scan' = 0 /\ items' = <<>> /\ done' = {}
    /\ pc' = "strip"
    /\ UNCHANGED <<html, title, author, pass, out1, out2, asmVars, runVars>>

\* a step that takes the soup to soup2 and hands over to the step next
Step(next, soup2) ==
    /\ forest' = <<soup2>>
    /\ before' = forest[1]
    /\ pc' = next
    /\ UNCHANGED <<html, title, author, pass, nextId, ids, anchors, scan, items, done,
                   preNotes, raised, out1, out2, asmVars, runVars>>

\* lines 144-145
CleanStrip == pc = "strip" /\ Step("endnotes", StripNonContent(forest[1]))

\* lines 53-59: process_endnotes is entered
EndnotesBegin ==
    /\ pc = "endnotes"
    /\ ids' = IdMap(forest[1])
    /\ anchors' = AnchorList(forest[1])
    /\ scan' = 0 /\ items' = <<>> /\ done' = {}
    /\ preNotes' = forest[1]
    /\ before' = forest[1]
    /\ pc' = "scan"
    /\ UNCHANGED <<html, title, author, pass, forest, nextId, raised, out1, out2, asmVars, runVars>>

\* the run of process_endnotes as the variables hold it
Scanning ==
    [forest |-> forest, nextId |-> nextId, items |-> items, done |-> done, exc |-> FALSE]

\* lines 61-111: one anchor of the list is handled
EndnotesScan ==
    /\ pc = "scan" /\ scan < Len(anchors)
    /\ \E T \in {ScanStep(Scanning, ids, anchors[scan + 1])} :
          /\ ~T.exc
          /\ forest' = T.forest /\ nextId' = T.nextId
          /\ items' = T.items /\ done' = T.done
    /\ scan' = scan + 1
    /\ UNCHANGED <<html, title, author, pass, pc, ids, anchors, before, preNotes, raised,
                   out1, out2, asmVars, runVars>>

\* lines 61-111 and 148-151: handling an anchor raises; clean_html catches
\* the exception and goes on with the soup as the scan left it
EndnotesRaise ==
    /\ pc = "scan" /\ scan < Len(anchors)
    /\ \E T \in {ScanStep(Scanning, ids, anchors[scan + 1])} :
          /\ T.exc
          /\ forest' = <<T.forest[1]>> /\ nextId' = T.nextId
          /\ items' = T.items /\ done' = T.done
    /\ raised' = TRUE
    /\ pc' = "title"
    /\ UNCHANGED <<html, title, author, pass, ids, anchors, scan, before, preNotes,
                   out1, out2, asmVars, runVars>>

\* lines 113-131: the scan is over
EndnotesAppend ==
    /\ pc = "scan" /\ scan = Len(anchors)
    /\ \E T \in {AppendNotes(Scanning)} :
          forest' = <<T.forest[1]>> /\ nextId' = T.nextId
    /\ pc' = "title"
    /\ UNCHANGED <<html, title, author, pass, ids, anchors, scan, items, done, before,
                   preNotes, raised, out1, out2, asmVars, runVars>>

\* lines 154-174
CleanTitle == pc = "title" /\ Step("boilerplate", TitleDedup(forest[1], title))

\* lines 178-229
CleanBoilerplate == pc = "boilerplate" /\ Step("classes", RemoveBoilerplate(forest[1], author))

\* lines 233-249
CleanClasses == pc = "classes" /\ Step("footers", RemovePlatformClasses(forest[1]))

\* lines 273-302
CleanFooters == pc = "footers" /\ Step("images", RemoveAdsAndFooters(forest[1]))

\* lines 305-317
CleanImages == pc = "images" /\ Step("leaves", RemoveTinyImages(forest[1]))

\* lines 321-332
CleanLeaves == pc = "leaves" /\ Step("empty", RemovePunctuationLeaves(forest[1]))

\* lines 335-339
CleanEmpty == pc = "empty" /\ Step("styles", RemoveEmpty(forest[1]))

\* lines 342-344
CleanStyles == pc = "styles" /\ Step("return", StripStyles(forest[1]))

\* lines 347-354: the call returns; its result is the input of the second
CleanReturn ==
    /\ pc = "return"
    /\ IF pass = 1
       THEN out1' = Render(forest[1]) /\ pass' = 2 /\ pc' = "parse" /\ UNCHANGED out2
       ELSE out2' = Render(forest[1]) /\ pc' = "done" /\ UNCHANGED <<out1, pass>>
    /\ UNCHANGED <<html, title, author, forest, nextId, ids, anchors, scan, items, done,
                   before, preNotes, raised, asmVars, runVars>>

NextClean ==
    \/ CleanParse \/ CleanStrip
    \/ EndnotesBegin \/ EndnotesScan \/ EndnotesRaise \/ EndnotesAppend
    \/ CleanTitle \/ CleanBoilerplate \/ CleanClasses \/ CleanFooters
    \/ CleanImages \/ CleanLeaves \/ CleanEmpty \/ CleanStyles
    \/ CleanReturn

SpecClean == InitClean /\ [][NextClean]_vars

\* the step-by-step run computes clean_html
StepsAgree ==
    /\ (pass = 2 /\ pc = "parse") => out1 = clean_html(html, title, author)
    /\ pc = "done" => out2 = clean_html(out1, title, author)

-----------------------------------------------------------------------------
(* text_to_html, clean_with_ai, process_single_email                       *)

\* lines 360-365: one <p> for every piece between "\n\n" that is not blank
text_to_html(text) ==
    LET paragraphs == Split(text, "\n\n")
    IN Html(Flatten([i \in 1..Len(paragraphs) |->
                       IF Strip(paragraphs[i]) # "" THEN P(Strip(paragraphs[i])) ELSE <<>>]))

\* what the remote client does when clean_with_ai uses it
AiOutcomes == {"ok", "construct_fail", "request_fail", "malformed"}

\* response.choices[0].message.content of a well-formed answer
AiReply == <<Text("\n")>> \o P("Polished article.") \o <<Text("  \n")>>

\* str.strip on an HTML string
StripTokens(ts) ==
    LET n == Len(ts)
        front == IF n > 0 /\ ts[1].k = "text"
                 THEN <<Text(LStrip(ts[1].text))>> \o SubSeq(ts, 2, n) ELSE ts
        m == Len(front)
        back == IF m > 0 /\ front[m].k = "text"
                THEN SubSeq(front, 1, m - 1) \o <<Text(RStrip(front[m].text))>> ELSE front
    IN Html(back)

\* os.getenv("OPENAI_API_KEY") is truthy
HasKey(api_key) == api_key # NoKey /\ api_key # ""

\* a polisher that sends its request again when the first one failed
clean_with_ai_retry(html_content, api_key, outcome) ==
    IF ~HasKey(api_key)
    THEN [raised |-> FALSE, value |-> html_content, client |-> 0, remote |-> 0]
    ELSE IF outcome = "construct_fail"
    THEN [raised |-> TRUE, value |-> <<>>, client |-> 1, remote |-> 0]
    ELSE IF outcome = "ok"
    THEN [raised |-> FALSE, value |-> StripTokens(AiReply), client |-> 1, remote |-> 1]
    ELSE [raised |-> FALSE, value |-> html_content, client |-> 1, remote |-> 2]

\* lines 10-45: the value returned or the exception raised, with the client
\* constructions and the requests made
clean_with_ai(html_content, api_key, outcome) ==
    IF ~HasKey(api_key)
    THEN [raised |-> FALSE, value |-> html_content, client |-> 0, remote |-> 0]
    ELSE IF outcome = "construct_fail"
    THEN [raised |-> TRUE, value |-> <<>>, client |-> 1, remote |-> 0]
    ELSE IF outcome = "ok"
    THEN [raised |-> FALSE, value |-> StripTokens(AiReply), client |-> 1, remote |-> 1]
    ELSE [raised |-> FALSE, value |-> html_content, client |-> 1, remote |-> 1]

\* what one run of process_single_email did besides returning
NoCalls ==
    [cleaner |-> 0, cleaned |-> <<>>, polisher |-> 0, polishArg |-> <<>>,
     polishRaised |-> FALSE, client |-> 0, remote |-> 0]

NoArticle ==
    [original_subject |-> None, title |-> None, author |-> None, date |-> None,
     summary |-> "", content |-> <<>>, images |-> <<>>]

\* lines 378-381
SenderName(sender) ==
    IF Contains("<", sender) THEN Strip(Split(sender, "<")[1]) ELSE sender

\* line 383: raw_html is truthy
HasHtml(email) == email.html_body # <<>>

\* lines 397-405
Article(email, clean_body) ==
    [original_subject |-> email.subject, title |-> email.subject,
     author |-> SenderName(email.sender), date |-> email.date,
     summary |-> "", content |-> clean_body, images |-> email.images]

\* lines 389-393 and 397-405: the pre-cleaned body goes through the
\* polisher r, or straight into the article
Polished(email, pre_cleaned, r) ==
    [raised |-> r.raised,
     article |-> Article(email, r.value),
     calls |-> [NoCalls EXCEPT !.cleaner = 1, !.cleaned = pre_cleaned,
                               !.polisher = 1, !.polishArg = pre_cleaned,
                               !.polishRaised = r.raised,
                               !.client = r.client, !.remote = r.remote]]

Unpolished(email, pre_cleaned) ==
    [raised |-> FALSE,
     article |-> Article(email, pre_cleaned),
     calls |-> [NoCalls EXCEPT !.cleaner = 1, !.cleaned = pre_cleaned]]

\* lines 385-393
HtmlArticle(email, api_key, outcome, pre_cleaned) ==
    IF HasKey(api_key)
    THEN Polished(email, pre_cleaned, clean_with_ai(pre_cleaned, api_key, outcome))
    ELSE Unpolished(email, pre_cleaned)

\* lines 367-405 with the key found in the environment and the behaviour of
\* the remote client
process_single_email(email, api_key, outcome) ==
    IF HasHtml(email)
    THEN HtmlArticle(email, api_key, outcome,
                     clean_html(email.html_body, email.subject, SenderName(email.sender)))
    ELSE [raised |-> FALSE, article |-> Article(email, text_to_html(email.body)),
          calls |-> NoCalls]

-----------------------------------------------------------------------------
(* The messages handed to process_emails                                   *)

MaxMsgs == 6     \* plain-text messages in one call
MaxMixed == 2    \* messages of a call in which some have an HTML body

MaxWorkers == 5
MissingRank == 999

Subjects ==
    <<"Morning Brief", "Markets", "Morning Brief", "Tech", "Sports", "Weather",
      "Science", "Travel", "Books">>

Bodies ==
    <<"First block\n\nSecond block", "", "One\r\n\r\nTwo", "  \n\n Solo \n\n\n\nEnd\n",
      "Up\n \nDown">>

\* the i-th message of a call without HTML bodies, as get_message_content
\* builds it
PlainMsg(i) ==
    [subject |-> Subjects[i], sender |-> "Jane Doe <jane@example.org>",
     date |-> "Nov " \o NumStr(i), body |-> Bodies[((i - 1) % Len(Bodies)) + 1],
     html_body |-> <<>>, images |-> <<>>]

\* the i-th message of a call with HTML bodies in it
MixedMsg(i) ==
    IF i % 2 = 1
    THEN [subject |-> "Weekly Digest 1", sender |-> "Jane Doe <jane@example.org>",
          date |-> "Dec " \o NumStr(i), body |-> "Weekly Digest",
          html_body |-> HeadDoc(1) \o El("p", NoAttrs, El("a", A("http://x"),
                                                         <<Text("Jane Doe")>>)),
          images |-> <<"images/a.png">>]
    ELSE [subject |-> "Letter " \o NumStr(i), sender |-> "desk@example.org",
          date |-> "Dec " \o NumStr(i), body |-> "Dear reader\n\nGoodbye",
          html_body |-> <<>>, images |-> <<>>]

Keys == {NoKey, "", "sk-live"}

-----------------------------------------------------------------------------
(* main's --no-ai switch and process_emails                                *)

\* the switch without effect
KeptKey(no_ai, key) == key

\* main.py lines 22-25
ToggledKey(no_ai, key) == IF no_ai THEN NoKey ELSE key

\* a failed future taking the articles collected so far with it
CollectedAbort(arts, art, ok) == IF ok THEN Append(arts, art) ELSE <<>>

\* lines 418-422: the outcome of one future joins the articles, or is logged
Collected(arts, art, ok) == IF ok THEN Append(arts, art) ELSE arts

\* line 438: the sort key of an article
Rank(art, email_subjects) ==
    LET at == {k \in 1..Len(email_subjects) : email_subjects[k] = art.original_subject}
    IN IF at = {} THEN MissingRank
       ELSE (CHOOSE k \in at : \A j \in at : k <= j) - 1

\* list.sort(key=...): stable
SortBack(arts, email_subjects) ==
    LET n == Len(arts)
        Before(j, k) ==
            \/ Rank(arts[j], email_subjects) < Rank(arts[k], email_subjects)
            \/ Rank(arts[j], email_subjects) = Rank(arts[k], email_subjects) /\ j < k
        Place(k) == Cardinality({j \in 1..n : Before(j, k)}) + 1
    IN [q \in 1..n |-> arts[CHOOSE k \in 1..n : Place(k) = q]]

\* the cleaner at rest
CleanIdle ==
    /\ html = <<>> /\ title = "" /\ author = "" /\ pass = 0 /\ pc = "idle"
    /\ forest = <<NoSoup>> /\ nextId = 0
    /\ ids = <<>> /\ anchors = <<>> /\ scan = 0 /\ items = <<>> /\ done = {}
    /\ before = NoSoup /\ preNotes = NoSoup /\ raised = FALSE
    /\ out1 = <<>> /\ out2 = <<>>

InitAsm ==
    /\ \/ \E n \in 0..MaxMsgs :
            /\ emails = [i \in 1..n |-> PlainMsg(i)]
            /\ noAi = FALSE /\ envKey = NoKey
       \/ \E n \in 1..MaxMixed :
            /\ emails = [i \in 1..n |-> MixedMsg(i)]
            /\ noAi \in BOOLEAN /\ envKey \in Keys
    /\ mpc = "toggle"
    /\ submitted = 0 /\ started = 0
    /\ task = [i \in 1..Len(emails) |-> "new"]
    /\ result = [i \in 1..Len(emails) |-> NoArticle]
    /\ calls = [i \in 1..Len(emails) |-> NoCalls]
    /\ collected = <<>> /\ articles = <<>>
    /\ CleanIdle
    /\ RunIdle

\* main.py lines 21-25
MainToggle ==
    /\ mpc = "toggle"
    /\ envKey' = ToggledKey(noAi, envKey)
    /\ mpc' = "check"
    /\ UNCHANGED <<noAi, emails, submitted, started, task, result, calls, collected,
                   articles, cleanVars, runVars>>

\* main.py lines 73-79: nothing to process, or process_emails is called
MainCheck ==
    /\ mpc = "check"
    /\ mpc' = IF emails = <<>> THEN "exit" ELSE "submit"
    /\ UNCHANGED <<noAi, envKey, emails, submitted, started, task, result, calls,
                   collected, articles, cleanVars, runVars>>

\* line 414: the next message is handed to the executor
Submit ==
    /\ mpc = "submit" /\ submitted < Len(emails)
    /\ task' = [task EXCEPT ![submitted + 1] = "queued"]
    /\ submitted' = submitted + 1
    /\ mpc' = IF submitted + 1 = Len(emails) THEN "collect" ELSE "submit"
    /\ UNCHANGED <<noAi, envKey, emails, started, result, calls, collected, articles,
                   cleanVars, runVars>>

Running == {i \in 1..Len(emails) : task[i] = "running"}

\* a pool that starts a thread for every task handed to it
PoolUnbounded(busy) == TRUE

\* line 412, ThreadPoolExecutor(max_workers=5): a worker is free
PoolHasRoom(busy) == Cardinality(busy) < MaxWorkers

\* line 412: a worker of the pool takes the oldest task waiting
WorkerStart ==
    /\ started < submitted
    /\ PoolHasRoom(Running)
    /\ task' = [task EXCEPT ![started + 1] = "running"]
    /\ started' = started + 1
    /\ UNCHANGED <<mpc, noAi, envKey, emails, submitted, result, calls, collected,
                   articles, cleanVars, runVars>>

\* process_single_email returns in its worker
TaskReturn(i) ==
    /\ task[i] = "running"
    /\ \E outcome \in AiOutcomes :
         \E r \in {process_single_email(emails[i], envKey, outcome)} :
            /\ ~r.raised
            /\ result' = [result EXCEPT ![i] = r.article]
            /\ calls' = [calls EXCEPT ![i] = r.calls]
    /\ task' = [task EXCEPT ![i] = "ok"]
    /\ UNCHANGED <<mpc, noAi, envKey, emails, submitted, started, collected, articles,
                   cleanVars, runVars>>

\* process_single_email raises in its worker
TaskRaise(i) ==
    /\ task[i] = "running"
    /\ \E outcome \in AiOutcomes :
         \E r \in {process_single_email(emails[i], envKey, outcome)} :
            /\ r.raised
            /\ calls' = [calls EXCEPT ![i] = r.calls]
    /\ task' = [task EXCEPT ![i] = "exc"]
    /\ UNCHANGED <<mpc, noAi, envKey, emails, submitted, started, result, collected,
                   articles, cleanVars, runVars>>

\* lines 417-422: as_completed yields a future that is done
Collect(i) ==
    /\ mpc = "collect"
    /\ task[i] \in {"ok", "exc"}
    /\ \A k \in 1..Len(collected) : collected[k] # i
    /\ collected' = Append(collected, i)
    /\ articles' = Collected(articles, result[i], task[i] = "ok")
    /\ UNCHANGED <<mpc, noAi, envKey, emails, submitted, started, task, result, calls,
                   cleanVars, runVars>>

\* lines 436-440: every future has been yielded; sort and return
Return ==
    /\ mpc = "collect"
    /\ Len(collected) = Len(emails)
    /\ articles' = SortBack(articles, [k \in 1..Len(emails) |-> emails[k].subject])
    /\ mpc' = "returned"
    /\ UNCHANGED <<noAi, envKey, emails, submitted, started, task, result, calls,
                   collected, cleanVars, runVars>>

NextAsm ==
    \/ MainToggle \/ MainCheck \/ Submit \/ WorkerStart
    \/ \E i \in 1..Len(emails) : TaskReturn(i)
    \/ \E i \in 1..Len(emails) : TaskRaise(i)
    \/ \E i \in 1..Len(emails) : Collect(i)
    \/ Return

SpecAsm == InitAsm /\ [][NextAsm]_vars

-----------------------------------------------------------------------------
(* Properties of process_emails and process_single_email                   *)

Finished(i) == task[i] \in {"ok", "exc"}

Occurrences(seq, x) == Cardinality({k \in 1..Len(seq) : seq[k] = x})

\* C1 (as stated): when process_emails has returned and no message's
\* processing raised, the original_subject values of the returned articles
\* are the subject values of the input messages, position by position
C1_OrderPreserved ==
    (mpc = "returned" /\ \A i \in 1..Len(emails) : task[i] = "ok") =>
        [k \in 1..Len(articles) |-> articles[k].original_subject]
            = [k \in 1..Len(emails) |-> emails[k].subject]

\* C2: when process_emails has returned, every article that some message's
\* processing returned is in the list as often as there are messages that
\* returned it, and nothing else is in the list, whatever raised
C2_FailureIsolated ==
    mpc = "returned" =>
        /\ \A i \in 1..Len(emails) : Finished(i)
        /\ Len(articles) = Cardinality({i \in 1..Len(emails) : task[i] = "ok"})
        /\ \A i \in 1..Len(emails) :
             task[i] = "ok" =>
                 Occurrences(articles, result[i])
                     = Cardinality({j \in 1..Len(emails) :
                                      task[j] = "ok" /\ result[j] = result[i]})

\* C2 witness: process_emails has returned although a message's processing
\* raised, after another message's article had been collected
C2_Witness ==
    /\ mpc = "returned"
    /\ \E i, j \in 1..Len(emails) :
         /\ task[i] = "exc" /\ task[j] = "ok"
         /\ \E p, q \in 1..Len(collected) : p < q /\ collected[p] = j /\ collected[q] = i

\* C3 (as stated): a call of clean_with_ai never raises to its caller
C3_NeverRaises ==
    \A i \in 1..Len(emails) : calls[i].polisher = 1 => ~calls[i].polishRaised

\* C4: once main has handled --no-ai the key is gone when the switch was
\* given; a message processed without a key causes no remote request and,
\* if it has an HTML body, gets the cleaner's output as content; the
\* polisher runs only for messages with an HTML body, on the cleaner's
\* output
C4_NoKeyNoRemote ==
    /\ (noAi /\ mpc # "toggle") => envKey = NoKey
    /\ \A i \in 1..Len(emails) :
         Finished(i) =>
            /\ ~HasKey(envKey) =>
                  /\ calls[i].remote = 0 /\ calls[i].client = 0
                  /\ HasHtml(emails[i]) =>
                        /\ task[i] = "ok"
                        /\ calls[i].cleaner = 1
                        /\ result[i].content = calls[i].cleaned
                        /\ calls[i].cleaned
                             = clean_html(emails[i].html_body, emails[i].subject,
                                          SenderName(emails[i].sender))
            /\ calls[i].remote = 1 => calls[i].polisher = 1
            /\ calls[i].polisher = 1 =>
                  /\ HasHtml(emails[i])
                  /\ calls[i].cleaner = 1
                  /\ calls[i].polishArg = calls[i].cleaned
                  /\ calls[i].polishArg # emails[i].html_body

\* C4 witness: with --no-ai given, a message with an HTML body has been
\* processed
C4_Witness ==
    /\ noAi
    /\ \E i \in 1..Len(emails) :
         HasHtml(emails[i]) /\ task[i] = "ok" /\ calls[i].cleaner = 1

\* the lines of a text, whatever the line ending
Lines(text) == Split(Replace(text, "\r\n", "\n"), "\n")

\* the number of blocks of lines that are not blank, separated by blank
\* lines
BlockCount(text) ==
    LET ls == Lines(text)
    IN Cardinality({k \in 1..Len(ls) :
                      /\ Strip(ls[k]) # ""
                      /\ (k = 1 \/ Strip(ls[k - 1]) = "")})

ParagraphCount(content) ==
    Cardinality({k \in 1..Len(content) : content[k].k = "open" /\ content[k].name = "p"})

\* C10 (as stated): a message without an HTML body yields an article whose
\* content has one paragraph element for every non-blank block of its
\* plain-text body
C10_ParagraphPerBlock ==
    \A i \in 1..Len(emails) :
        (Finished(i) /\ ~HasHtml(emails[i])) =>
            /\ task[i] = "ok"
            /\ ParagraphCount(result[i].content) = BlockCount(emails[i].body)

\* C13: at most 5 messages are being processed at any time; nothing is
\* collected before every message has been submitted; and the articles are
\* sorted back (process_emails has returned) only when every submitted task
\* has returned or raised and has been collected
C13_PoolBounded ==
    /\ Cardinality(Running) <= 5
    /\ collected # <<>> => submitted = Len(emails)
    /\ mpc = "returned" =>
          /\ submitted = Len(emails)
          /\ \A i \in 1..Len(emails) : Finished(i)
          /\ Len(collected) = Len(emails)

\* C13 witness: more than 5 messages were submitted, 5 are being processed
\* and one is waiting for a worker
C13_Witness ==
    /\ Len(emails) > 5 /\ submitted = Len(emails)
    /\ Cardinality(Running) = 5
    /\ \E i \in 1..Len(emails) : task[i] = "queued"

\* how far a task has come
TaskRank(t) ==
    CASE t = "new" -> 0 [] t = "queued" -> 1 [] t = "running" -> 2 [] OTHER -> 3

\* C15: for every message the cleaner runs at most once, the polisher is
\* called at most once and makes at most one request to the remote service;
\* a task never goes back to an earlier stage (a message is handed to the
\* pool once), and once it has returned or raised, its state, its article
\* and what it called stay as they are; when process_emails has returned,
\* every message had been submitted
C15_NoRetries ==
    /\ [](/\ \A i \in 1..Len(emails) :
               /\ calls[i].cleaner <= 1
               /\ calls[i].polisher <= 1
               /\ calls[i].client <= 1
               /\ calls[i].remote <= 1
          /\ submitted <= Len(emails)
          /\ mpc = "returned" => \A i \in 1..Len(emails) : Finished(i))
    /\ [][/\ submitted' >= submitted
          /\ \A i \in 1..Len(emails) :
               /\ TaskRank(task'[i]) >= TaskRank(task[i])
               /\ Finished(i) =>
                     /\ task'[i] = task[i]
                     /\ result'[i] = result[i]
                     /\ calls'[i] = calls[i]]_vars

\* C15 witness: process_emails has returned with a message whose request
\* to the remote service failed once and whose article holds the cleaner's
\* output
C15_Witness ==
    /\ mpc = "returned"
    /\ \E i \in 1..Len(emails) :
         /\ task[i] = "ok" /\ calls[i].remote = 1
         /\ result[i].content = calls[i].cleaned

-----------------------------------------------------------------------------
(* Properties of clean_html                                                *)

\* the nodes the step just taken removed from the soup
Removed == NidSet(Pre(before)) \ NidSet(Pre(forest[1]))

\* C5 (as stated): clean_html applied to its own result, with the same title
\* and author, returns that result again
C5_Idempotent == pc = "done" => out2 = out1

\* the target ids referenced by qualifying anchors, in the order of their
\* first reference
RefTargets(soup) ==
    LET refs == SelectSeq(FindAll(soup, {"a"}),
                          LAMBDA n : n.a.href # None /\ Qualifies(n, IdMap(soup)))
        tgt == [k \in 1..Len(refs) |-> SubSeq(refs[k].a.href, 2, Len(refs[k].a.href))]
        firsts == SelectSeq([k \in 1..Len(tgt) |-> [k |-> k, t |-> tgt[k]]],
                            LAMBDA r : \A j \in 1..(r.k - 1) : tgt[j] # r.t)
    IN [k \in 1..Len(firsts) |-> firsts[k].t]

\* the Notes containers of a soup
Containers(soup) ==
    SelectSeq(AllTags(soup), LAMBDA n : \E k \in 1..Len(n.cls) : n.cls[k] = "endnotes")

\* the id of a consolidated entry: its own, or that of the note a wrapper
\* holds
EntryId(e) ==
    IF e.a.id # None THEN e.a.id
    ELSE IF Len(e.kids) > 0 THEN e.kids[1].a.id ELSE None

\* the ids of the entries of a Notes container, in order
EntryIds(container) ==
    LET es == SelectSeq(container.kids,
                        LAMBDA n : \E k \in 1..Len(n.cls) : n.cls[k] = "endnote-item")
    IN [k \in 1..Len(es) |-> EntryId(es[k])]

\* C6 (as stated): the result of the first call holds one Notes container
\* with one entry for every referenced target, in first-reference order,
\* and no container when nothing is referenced
C6_OneEntryPerTarget ==
    (pass = 2 /\ pc = "parse") =>
        \E targets \in {RefTargets(StripNonContent(Parse(html)))} :
            IF targets = <<>>
            THEN Containers(forest[1]) = <<>>
            ELSE /\ Len(Containers(forest[1])) = 1
                 /\ EntryIds(Containers(forest[1])[1]) = targets

\* C7 (as stated): when footnote consolidation raised, the pipeline goes on
\* with the soup as it was before consolidation started
C7_RaiseRestores == (pc = "title" /\ raised) => forest[1] = preNotes

\* the normalised text of a heading
NormText(h) == Lower(Strip(GetText(h)))

\* neither text is part of the other
Unrelated(x, y) == ~Contains(x, y) /\ ~Contains(y, x)

\* C8: the title step removes nothing, or exactly one of the first two
\* h1/h2 elements with what is in it; it removes the first heading when the
\* title is its normalised text, and nothing when the title has nothing in
\* common with the first two headings
C8_TitleDedup ==
    pc = "boilerplate" =>
        \E hs \in {FindAll(before, HeadingNames)} :
        \E t \in {Lower(Strip(title))} :
            /\ \/ Removed = {}
               \/ \E i \in 1..Len(hs) : i <= HeadingLimit /\ Removed = NidSet(Pre(hs[i]))
            /\ (Len(hs) >= 1 /\ t # "" /\ NormText(hs[1]) = t) =>
                   Removed = NidSet(Pre(hs[1]))
            /\ (\A i \in 1..Len(hs) : i <= HeadingLimit => Unrelated(NormText(hs[i]), t)) =>
                   Removed = {}

\* C8 witness: the title is the text of the third heading and of no other,
\* and the step has removed nothing
C8_Witness ==
    /\ pc = "boilerplate" /\ Removed = {}
    /\ \E hs \in {FindAll(before, HeadingNames)} :
         /\ Len(hs) >= 3
         /\ NormText(hs[3]) = Lower(Strip(title))
         /\ NormText(hs[1]) # Lower(Strip(title))
         /\ NormText(hs[2]) # Lower(Strip(title))

\* C9: the tiny-image step removes an image exactly when its width or its
\* height is a non-negative integer of at most 50
C9_TinyImages ==
    pc = "leaves" =>
        \E imgs \in {FindAll(before, {"img"})} :
            \A k \in 1..Len(imgs) :
                (imgs[k].nid \in Removed)
                    <=> (imgs[k].a.width \in DimSmall \/ imgs[k].a.height \in DimSmall)

\* C9 witness: an image of width 400 and height 40 has been removed, and
\* one of width 400 and no height kept
C9_Witness ==
    /\ pc = "leaves"
    /\ \E imgs \in {FindAll(before, {"img"})} :
         /\ \E k \in 1..Len(imgs) :
              imgs[k].a.width = "400" /\ imgs[k].a.height = "40" /\ imgs[k].nid \in Removed
         /\ \E k \in 1..Len(imgs) :
              imgs[k].a.width = "400" /\ imgs[k].a.height = None /\ imgs[k].nid \notin Removed

\* the elements the footer loop looks at that it removed themselves, not
\* together with an element around them
TopRemoved ==
    SelectSeq(FindAll(before, FooterNames),
              LAMBDA e : /\ e.nid \in Removed
                         /\ \A x \in Removed : x = e.nid \/ ~InForest(<<NodeOf(<<before>>, x)>>, e.nid))

\* the ad, signature and read-in-app rules of the footer loop
OtherFooterRule(text) ==
    \/ \E m \in ad_markers : Contains(m, text)
    \/ Contains("@", text) /\ (Contains("editor", text) \/ Contains("reporter", text))
    \/ Contains("read in app", text)

\* C14 (as stated): an element the action-word rule of the footer loop
\* removed has a trimmed text that is one of the action words and nothing
\* else
C14_ExactActionWord ==
    pc = "images" =>
        \E rs \in {TopRemoved} :
            \A k \in 1..Len(rs) :
                \E text \in {Lower(GetTextSep(rs[k], " "))} :
                    ~OtherFooterRule(text) => IsFooterMarker(text)

-----------------------------------------------------------------------------
(* main.py and gmail_service.py: a run of main from its arguments to the   *)
(* PDF, with the cache file email_cache.json kept from run to run          *)

MaxRuns == 2      \* runs of main, one after the other
MaxListed == 2    \* messages the mail service lists under the label
MaxLimit == 2     \* largest value given to --limit

\* the id of the k-th message of the mailbox
MsgId(k) == "m" \o NumStr(k)

\* get_message_content, lines 125-133: the dict returned for a message
Content(id) == [id |-> id, subject |-> "About " \o id]

\* the mailboxes of a run: the first n message ids, n up to MaxListed
Mailboxes == {[k \in 1..n |-> MsgId(k)] : n \in 0..MaxListed}

IdsOf(box) == {box[k] : k \in 1..Len(box)}

\* argparse, type=int: --limit not given, or given with any integer
Limits == {<<>>} \cup {<<n>> : n \in -1..MaxLimit}

\* Python truth value of args.limit / max_results (None and 0 are false)
Truthy(lim) == lim # <<>> /\ lim[1] # 0

\* Python seq[:n]
SliceTo(seq, n) ==
    IF n >= 0 THEN SubSeq(seq, 1, IF n < Len(seq) THEN n ELSE Len(seq))
    ELSE SubSeq(seq, 1, IF Len(seq) + n > 0 THEN Len(seq) + n ELSE 0)

\* json.dump of a list of message dicts: the text as a sequence of tokens
JsonDump(list) ==
    <<"[">> \o Flatten([k \in 1..Len(list) |->
                           <<"{", list[k].id, list[k].subject, "}">>]) \o <<"]">>

\* json.load of such a text
JsonLoad(text) ==
    [k \in 1..((Len(text) - 2) \div 4) |->
        [id |-> text[4 * k - 1], subject |-> text[4 * k]]]

FileOf(list) == [exists |-> TRUE, text |-> JsonDump(list)]

\* a cache file left by an earlier run that fetched two messages
EarlierCache == FileOf(<<Content(MsgId(1)), Content(MsgId(2))>>)

\* what get_message_content returns: <<>> for None, <<dict>> for a dict
NoContent == <<>>

\* gmail_service.py lines 163-165, with a failed message emptying the list
FetchedReset(data, content) ==
    IF content # NoContent THEN Append(data, content[1]) ELSE <<>>

\* gmail_service.py lines 163-165: content is appended when it is truthy
Fetched(data, content) ==
    IF content # NoContent THEN Append(data, content[1]) ELSE data

\* main.py lines 68-71, writing the file only for a non-empty list
SavedCacheNonEmpty(cache_opt, list, file) ==
    IF cache_opt /\ list # <<>> THEN FileOf(list) ELSE file

\* main.py lines 68-71: with the cache option the fetched list is written
SavedCache(cache_opt, list, file) == IF cache_opt THEN FileOf(list) ELSE file

InitMain ==
    /\ cacheFile \in {NoFile, EarlierCache}
    /\ rpc = "idle" /\ cacheOpt = FALSE /\ limit = <<>> /\ credFiles = FALSE
    /\ startCache = NoFile
    /\ mailbox = <<>> /\ failing = {} /\ service = FALSE /\ listed = "none"
    /\ messages = <<>> /\ email_data = <<>> /\ mails = <<>>
    /\ auths = 0 /\ lists = 0 /\ gets = <<>> /\ passed = <<>> /\ pdf = "none"
    /\ runs = 0
    /\ CleanIdle /\ AsmIdle

\* main is started: its arguments, and the mailbox and the files it finds
RunStart ==
    /\ rpc \in {"idle", "done", "crashed"}
    /\ runs < MaxRuns
    /\ runs' = runs + 1
    /\ cacheOpt' \in BOOLEAN
    /\ limit' \in Limits
    /\ credFiles' \in BOOLEAN
    /\ mailbox' \in Mailboxes
    /\ failing' \in SUBSET IdsOf(mailbox')
    /\ startCache' = cacheFile
    /\ service' = FALSE /\ listed' = "none"
    /\ messages' = <<>> /\ email_data' = <<>> /\ mails' = <<>>
    /\ auths' = 0 /\ lists' = 0 /\ gets' = <<>> /\ passed' = <<>> /\ pdf' = "none"
    /\ rpc' = "auth"
    /\ UNCHANGED <<cacheFile, cleanVars, asmVars>>

\* main.py lines 28-45; get_gmail_service returns a service, returns None,
\* or raises (gmail_service.py lines 11-31)
RunAuth ==
    /\ rpc = "auth"
    /\ IF cacheOpt /\ cacheFile.exists
       THEN /\ rpc' = "load"
            /\ UNCHANGED <<auths, service>>
       ELSE IF ~credFiles
       THEN /\ rpc' = "done"
            /\ UNCHANGED <<auths, service>>
       ELSE /\ auths' = auths + 1
            /\ \E outcome \in {"ok", "none", "raise"} :
                 /\ service' = (outcome = "ok")
                 /\ rpc' = CASE outcome = "ok" -> "list"
                             [] outcome = "none" -> "done"
                             [] outcome = "raise" -> "crashed"
    /\ UNCHANGED <<cacheOpt, limit, credFiles, cacheFile, startCache, mailbox,
                   failing, listed, messages, email_data, mails, lists, gets,
                   passed, pdf, runs, cleanVars, asmVars>>

\* main.py lines 49-57: the cached list, cut to the limit
RunLoadCache ==
    /\ rpc = "load"
    /\ mails' = IF Truthy(limit) THEN SliceTo(JsonLoad(cacheFile.text), limit[1])
                ELSE JsonLoad(cacheFile.text)
    /\ rpc' = "check"
    /\ UNCHANGED <<cacheOpt, limit, credFiles, cacheFile, startCache, mailbox,
                   failing, service, listed, messages, email_data, auths, lists,
                   gets, passed, pdf, runs, cleanVars, asmVars>>

\* main.py lines 60-66 and gmail_service.py lines 146-159: the listing call
\* returns the labelled messages, raises HttpError, or raises something else
FetchList ==
    /\ rpc = "list"
    /\ IF ~service
       THEN /\ rpc' = "done"
            /\ UNCHANGED <<listed, lists, messages>>
       ELSE /\ lists' = lists + 1
            /\ \E outcome \in {"ok", "http_error", "error"} :
                 /\ listed' = outcome
                 /\ messages' = IF outcome = "ok"
                                THEN IF mailbox # <<>> /\ Truthy(limit)
                                     THEN SliceTo(mailbox, limit[1])
                                     ELSE mailbox
                                ELSE <<>>
                 /\ rpc' = CASE outcome = "ok" -> "get"
                             [] outcome = "http_error" -> "fetched"
                             [] outcome = "error" -> "crashed"
    /\ email_data' = <<>>
    /\ mails' = <<>>
    /\ UNCHANGED <<cacheOpt, limit, credFiles, cacheFile, startCache, mailbox,
                   failing, service, auths, gets, passed, pdf, runs,
                   cleanVars, asmVars>>

\* gmail_service.py lines 93-143: the dict of the message, or None when
\* anything in the try block raised
get_message_content(id, fails) ==
    IF id \in fails THEN NoContent ELSE <<Content(id)>>

\* gmail_service.py lines 161-165: one turn of the loop over messages
FetchMessage ==
    /\ rpc = "get"
    /\ Len(gets) < Len(messages)
    /\ \E id \in {messages[Len(gets) + 1]} :
         /\ gets' = Append(gets, id)
         /\ email_data' = Fetched(email_data, get_message_content(id, failing))
    /\ UNCHANGED <<rpc, cacheOpt, limit, credFiles, cacheFile, startCache,
                   mailbox, failing, service, listed, messages, mails, auths,
                   lists, passed, pdf, runs, cleanVars, asmVars>>

\* gmail_service.py line 167: return email_data
FetchDone ==
    /\ rpc = "get"
    /\ Len(gets) = Len(messages)
    /\ rpc' = "fetched"
    /\ UNCHANGED <<cacheOpt, limit, credFiles, cacheFile, startCache, mailbox,
                   failing, service, listed, messages, email_data, mails, auths,
                   lists, gets, passed, pdf, runs, cleanVars, asmVars>>

\* main.py lines 66-71: emails is what the fetch returned ([] after an
\* HttpError, gmail_service.py lines 169-171), written to the cache file
RunSaveCache ==
    /\ rpc = "fetched"
    /\ mails' = email_data
    /\ cacheFile' = SavedCache(cacheOpt, email_data, cacheFile)
    /\ rpc' = "check"
    /\ UNCHANGED <<cacheOpt, limit, credFiles, startCache, mailbox, failing,
                   service, listed, messages, email_data, auths, lists, gets,
                   passed, pdf, runs, cleanVars, asmVars>>

\* main.py lines 73-79: nothing to process, or process_emails(emails)
RunProcess ==
    /\ rpc = "check"
    /\ IF mails = <<>>
       THEN /\ rpc' = "done"
            /\ UNCHANGED passed
       ELSE /\ passed' = <<mails>>
            /\ rpc' = "pdf"
    /\ UNCHANGED <<cacheOpt, limit, credFiles, cacheFile, startCache, mailbox,
                   failing, service, listed, messages, email_data, mails, auths,
                   lists, gets, pdf, runs, cleanVars, asmVars>>

\* main.py lines 82-89 and pdf_generator.py lines 25-36: generate_pdf
\* returns True, or False when write_pdf raised
RunPdf ==
    /\ rpc = "pdf"
    /\ pdf' \in {"ok", "failed"}
    /\ rpc' = "done"
    /\ UNCHANGED <<cacheOpt, limit, credFiles, cacheFile, startCache, mailbox,
                   failing, service, listed, messages, email_data, mails, auths,
                   lists, gets, passed, runs, cleanVars, asmVars>>

\* between two runs the user deletes email_cache.json
RemoveCache ==
    /\ rpc \in {"idle", "done", "crashed"}
    /\ cacheFile.exists
    /\ cacheFile' = NoFile
    /\ UNCHANGED <<rpc, cacheOpt, limit, credFiles, startCache, mailbox, failing,
                   service, listed, messages, email_data, mails, auths, lists,
                   gets, passed, pdf, runs, cleanVars, asmVars>>

NextMain ==
    \/ RunStart \/ RunAuth \/ RunLoadCache
    \/ FetchList \/ FetchMessage \/ FetchDone
    \/ RunSaveCache \/ RunProcess \/ RunPdf
    \/ RemoveCache

SpecMain == InitMain /\ [][NextMain]_vars

\* the statements of a started run; main is one thread that executes them
\* one after the other, and every call it makes returns or raises
RunStep ==
    \/ RunAuth \/ RunLoadCache
    \/ FetchList \/ FetchMessage \/ FetchDone
    \/ RunSaveCache \/ RunProcess \/ RunPdf

SpecMainFair == SpecMain /\ WF_vars(RunStep)

-----------------------------------------------------------------------------
(* Properties of main and of the fetch layer                               *)

\* the run in progress, or the last one, found the cache file and had the
\* cache option
CachedRun == rpc # "idle" /\ cacheOpt /\ startCache.exists

\* the first n entries of a list, all of it when no limit is given
FirstEntries(list, lim) ==
    IF lim = <<>> THEN list
    ELSE SubSeq(list, 1, IF lim[1] < 0 THEN 0
                         ELSE IF lim[1] < Len(list) THEN lim[1] ELSE Len(list))

\* C11 (as stated): in a run of main with the cache option that finds the
\* cache file, get_gmail_service is never called, the mail service is never
\* asked for a listing or a message, and what process_emails is called with
\* is the cached list, cut to its first `limit` entries when --limit is given
C11_CacheOnly ==
    CachedRun =>
        /\ auths = 0 /\ lists = 0 /\ gets = <<>>
        /\ passed # <<>> =>
               passed[1] = FirstEntries(JsonLoad(startCache.text), limit)

\* the dicts of the requested messages whose retrieval did not fail, in the
\* order they were requested
Retrieved(requested, fails) ==
    [k \in 1..Len(SelectSeq(requested, LAMBDA id : id \notin fails)) |->
        Content(SelectSeq(requested, LAMBDA id : id \notin fails)[k])]

\* C12: while fetch_morning_dossier_emails runs after a listing that
\* succeeded, email_data holds the dict of every message requested so far
\* whose retrieval did not fail, in listing order, and a failed retrieval
\* does not end the loop: when the function returns every listed message
\* (up to max_results) has been requested; after a listing that failed no
\* message is requested, process_emails is not called and no PDF is made
C12_FetchFailures ==
    /\ listed = "ok" =>
          /\ email_data = Retrieved(gets, failing)
          /\ gets = SubSeq(messages, 1, Len(gets))
          /\ ~Truthy(limit) => messages = mailbox
          /\ rpc \in {"fetched", "check", "pdf", "done"} => gets = messages
          /\ rpc \in {"check", "pdf", "done"} => mails = email_data
    /\ listed \in {"http_error", "error"} =>
          /\ gets = <<>> /\ email_data = <<>>
          /\ passed = <<>> /\ pdf = "none"
          /\ rpc \in {"fetched", "check", "done", "crashed"}

\* C12 witness: of two listed messages the retrieval of the first failed,
\* the second was fetched, handed to process_emails and rendered
C12_Witness ==
    /\ rpc = "done" /\ listed = "ok"
    /\ mailbox = <<MsgId(1), MsgId(2)>> /\ failing = {MsgId(1)}
    /\ gets = mailbox
    /\ passed = <<(<<Content(MsgId(2))>>)>>
    /\ pdf = "ok"

\* a run with the cache option that found a cache file holding the empty list
EmptyCachedRun == CachedRun /\ JsonLoad(startCache.text) = <<>>

=============================================================================
